---- MODULE Spec2Model ----
(***************************************************************************)
(* Model of the fsm-gen runtime core of umdloop/tools:                     *)
(*   - the event FIFO shared by the timer interrupt and the main loop      *)
(*     (fsm-gen/fsm_fifo.cpp, tests/overlap/code/Src/fsm_fifo.cpp),        *)
(*   - the timer service and the elapse callback                           *)
(*     (demo/LiveDemo/Src/user_timers.cpp),                                *)
(*   - the generated two-state machine FSM2 (demo/LiveDemo/Src/FSM2.cpp).  *)
(***************************************************************************)
EXTENDS Integers, Sequences, FiniteSets, TLC

(***************************************************************************)
(* Sizes.  FIFO_SIZE is set in fsm_fifo.hpp; the queue code is written for *)
(* any FIFO_SIZE >= 2 and the model uses a small one.                      *)
(***************************************************************************)
FIFO_SIZE == 4

\* longest warm-up (write/read pairs) before a round-trip trial starts
MaxRotate == 4

\* number of elapse interrupts followed in the interleaving model
MaxEvents == 6

\* number of events the dispatch trial hands to FSM2
MaxDispatch == 4

\* timer ticks that pass in one step of the model's clock
TickStep == 2500

\* calls of start_timer and stop_timer a run of the timer harness makes
MaxTimerOps == 2

Timers == {"TIMER_1", "TIMER_2", "TIMER_3"}

States == {"S03", "S04"}

\* FSM_INITIAL_STATE(FSM2, FSM2_S03)
InitialState == "S03"

\* FSM_Event values stored in the queue (Events.hpp)
TIMER_1_EVENT_INDEX == 0

TIMER_2_EVENT_INDEX == 1

TIMER_3_EVENT_INDEX == 2

Events == {TIMER_1_EVENT_INDEX, TIMER_2_EVENT_INDEX, TIMER_3_EVENT_INDEX}

Slots == 0 .. (FIFO_SIZE - 1)

VARIABLES
    fifo,       \* Event_FIFO fifo: [head, tail, buffer]
    event,      \* the caller's FSM_Event location passed to read_event
    ret,        \* value returned by the last read_event call
    call,       \* the last queue call made (observation of the call history)
    pend,       \* events accepted by write_event and not yet read (history)
    rt_phase,   \* round-trip trial: "pre", "write", "read", "done"
    rt_in,      \* round-trip trial: the events e1..ek to enqueue
    rt_n,       \* round-trip trial: calls made in the current phase
    rt_out,     \* round-trip trial: events the reads yielded
    rt_rets,    \* round-trip trial: values the reads returned
    pc,         \* main loop: position inside read_event
    slot,       \* main loop: the index read_event loaded from fifo.head
    accepted,   \* every event write_event stored, in order (history)
    delivered,  \* every event a successful read_event returned (history)
    ndrop,      \* number of events write_event dropped (history)
    active,     \* FSM2: the active state (tinyfsm's current_state_ptr)
    htim,       \* the hardware timers behind htim1, htim2, htim3
    disp,       \* dispatches made by the dispatch trial (history)
    tg,         \* per timer: what happened since its last start (history)
    fifo2,      \* the fifo of the host-test variant (tests/overlap)
    event2,     \* host-test variant: the caller's FSM_Event location
    ret2,       \* host-test variant: value returned by the last read_event
    irq,        \* TRUE while interrupts are enabled
    wpc,        \* position inside the guarded write_event
    wrec        \* the write_event call in progress: argument, interrupt
                \* state at entry, path taken (history)

vars == <<fifo, event, ret, call, pend, rt_phase, rt_in, rt_n, rt_out, rt_rets,
          pc, slot, accepted, delivered, ndrop, active, htim, disp, tg,
          fifo2, event2, ret2, irq, wpc, wrec>>

fsmVars == <<active, htim, disp, tg>>

extVars == <<fifo2, event2, ret2, irq, wpc, wrec>>

rtVars == <<rt_phase, rt_in, rt_n, rt_out, rt_rets>>

irqVars == <<pc, slot, accepted, delivered, ndrop>>

(***************************************************************************)
(* The queue code, as functions of the queue value.                        *)
(***************************************************************************)

\* history of a timer that has not been started or stopped yet: fired counts
\* the elapse callbacks since the last start (up to 2), stopped says that
\* stop_timer returned since the last start, late that a callback came while
\* stopped, dropped that write_event dropped an event of this timer
NoHistory == [fired |-> 0, stopped |-> FALSE, late |-> FALSE, dropped |-> FALSE]

\* Event_FIFO fifo; a global, hence zero-initialised
EmptyFifo == [head |-> 0, tail |-> 0, buffer |-> [i \in Slots |-> 0]]

\* variant of IsFull: the wrapped case (tail in the last slot, head == 0) is
\* not recognised as full
IsFull_noWrap(q) ==
    LET next == q.tail + 1
    IN  next = q.head

\* (next == fifo.head) || ((next == FIFO_SIZE) && (fifo.head == 0))
IsFull(q) ==
    LET next == q.tail + 1
    IN  (next = q.head) \/ ((next = FIFO_SIZE) /\ (q.head = 0))

\* variant of write_event: the slot is written before the full test
write_event_clobber(q, e) ==
    LET next == q.tail + 1
    IN  IF IsFull(q)
        THEN [q EXCEPT !.buffer[q.tail] = e]
        ELSE [q EXCEPT !.buffer[q.tail] = e,
                       !.tail = IF q.tail = FIFO_SIZE - 1 THEN 0 ELSE next]

\* variant of write_event: a full queue gives up its oldest entry
write_event_dropOldest(q, e) ==
    LET next == q.tail + 1
    IN  IF IsFull(q)
        THEN [q EXCEPT !.buffer[q.tail] = e,
                       !.tail = IF q.tail = FIFO_SIZE - 1 THEN 0 ELSE next,
                       !.head = IF q.head = FIFO_SIZE - 1 THEN 0 ELSE q.head + 1]
        ELSE [q EXCEPT !.buffer[q.tail] = e,
                       !.tail = IF q.tail = FIFO_SIZE - 1 THEN 0 ELSE next]

\* void write_event(FSM_Event event), the queue after the call
write_event(q, e) ==
    LET next == q.tail + 1
    IN  IF IsFull(q)
        THEN q
        ELSE [q EXCEPT !.buffer[q.tail] = e,
                       !.tail = IF q.tail = FIFO_SIZE - 1 THEN 0 ELSE next]

\* (fifo.head == (FIFO_SIZE - 1)) ? 0 : fifo.head + 1
AdvanceHead(h) == IF h = FIFO_SIZE - 1 THEN 0 ELSE h + 1

\* variant of read_event: head is not advanced
read_event_stuck(q, ev) ==
    IF q.head = q.tail
    THEN [fifo |-> q, event |-> ev, ret |-> 0]
    ELSE [fifo |-> q, event |-> q.buffer[q.head], ret |-> 1]

\* variant of read_event: the slot is copied to *event before the empty test
read_event_copyFirst(q, ev) ==
    IF q.head = q.tail
    THEN [fifo |-> q, event |-> q.buffer[q.head], ret |-> 0]
    ELSE [fifo  |-> [q EXCEPT !.head = AdvanceHead(q.head)],
          event |-> q.buffer[q.head],
          ret   |-> 1]

\* int read_event(FSM_Event *event): the queue, *event and the return value
\* after the call; ev is the content of *event before it
read_event(q, ev) ==
    IF q.head = q.tail
    THEN [fifo |-> q, event |-> ev, ret |-> 0]
    ELSE [fifo  |-> [q EXCEPT !.head = AdvanceHead(q.head)],
          event |-> q.buffer[q.head],
          ret   |-> 1]

(***************************************************************************)
(* State after construction.  The main loop's FSM_Event local is not       *)
(* initialised, so *event starts with any value.                           *)
(***************************************************************************)
Init ==
    /\ fifo = EmptyFifo
    /\ event \in Events
    /\ ret = 0
    /\ call = [fn |-> "none"]
    /\ pend = <<>>
    /\ rt_phase = "pre"
    /\ rt_in = <<>>
    /\ rt_n = 0
    /\ rt_out = <<>>
    /\ rt_rets = <<>>
    /\ pc = "call"
    /\ slot = 0
    /\ accepted = <<>>
    /\ delivered = <<>>
    /\ ndrop = 0
    /\ active = InitialState
    /\ htim = [t \in Timers |-> [running |-> FALSE, period |-> 0, cnt |-> 0]]
    /\ disp = [n |-> 0, n2 |-> 0, ev |-> TIMER_2_EVENT_INDEX]
    /\ tg = [t \in Timers |-> NoHistory]
    /\ fifo2 = EmptyFifo
    /\ event2 = event
    /\ ret2 = 0
    /\ irq = TRUE
    /\ wpc = "idle"
    /\ wrec = [arg |-> 0, irq0 |-> TRUE, path |-> "none", next |-> 0]

(***************************************************************************)
(* Single-context use of the queue: calls of write_event and read_event    *)
(* in any order, each running to completion.                               *)
(***************************************************************************)
CallWrite(e) ==
    /\ fifo' = write_event(fifo, e)
    /\ call' = [fn |-> "write_event", arg |-> e]
    /\ pend' = IF fifo'.tail # fifo.tail THEN Append(pend, e) ELSE pend
    /\ UNCHANGED <<event, ret>>

CallRead ==
    LET r == read_event(fifo, event)
    IN  /\ fifo' = r.fifo
        /\ event' = r.event
        /\ ret' = r.ret
        /\ call' = [fn |-> "read_event"]
        /\ pend' = IF r.ret = 1 /\ pend # <<>> THEN Tail(pend) ELSE pend

SeqWrite == \E e \in Events : CallWrite(e) /\ UNCHANGED <<rtVars, irqVars, fsmVars, extVars>>

SeqRead == CallRead /\ UNCHANGED <<rtVars, irqVars, fsmVars, extVars>>

NextSeq == SeqWrite \/ SeqRead

SpecSeq == Init /\ [][NextSeq]_vars

(***************************************************************************)
(* Round-trip trial (spec section 8): after a warm-up that moves head and  *)
(* tail around the ring, k events are enqueued into the empty queue and    *)
(* k + 1 reads follow.                                                     *)
(***************************************************************************)
SeqsUpTo(n) == UNION {[1 .. m -> Events] : m \in 0 .. n}

\* warm-up: one write_event followed by one read_event
RT_Rotate ==
    /\ rt_phase = "pre"
    /\ rt_n < MaxRotate
    /\ \E e \in Events :
          LET r == read_event(write_event(fifo, e), event)
          IN  /\ fifo' = r.fifo
              /\ event' = r.event
              /\ ret' = r.ret
    /\ rt_n' = rt_n + 1
    /\ UNCHANGED <<call, pend, rt_phase, rt_in, rt_out, rt_rets, irqVars, fsmVars, extVars>>

\* the trial picks e1..ek, k < FIFO_SIZE
RT_Begin ==
    /\ rt_phase = "pre"
    /\ fifo.head = fifo.tail
    /\ \E s \in SeqsUpTo(FIFO_SIZE - 1) :
          /\ rt_in' = s
          /\ rt_phase' = IF Len(s) = 0 THEN "read" ELSE "write"
    /\ rt_n' = 0
    /\ UNCHANGED <<fifo, event, ret, call, pend, rt_out, rt_rets, irqVars, fsmVars, extVars>>

RT_Write ==
    /\ rt_phase = "write"
    /\ fifo' = write_event(fifo, rt_in[rt_n + 1])
    /\ rt_n' = IF rt_n + 1 = Len(rt_in) THEN 0 ELSE rt_n + 1
    /\ rt_phase' = IF rt_n + 1 = Len(rt_in) THEN "read" ELSE "write"
    /\ UNCHANGED <<event, ret, call, pend, rt_in, rt_out, rt_rets, irqVars, fsmVars, extVars>>

RT_Read ==
    /\ rt_phase = "read"
    /\ LET r == read_event(fifo, event)
       IN  /\ fifo' = r.fifo
           /\ event' = r.event
           /\ ret' = r.ret
           /\ rt_out' = IF r.ret = 1 THEN Append(rt_out, r.event) ELSE rt_out
           /\ rt_rets' = Append(rt_rets, r.ret)
    /\ rt_n' = rt_n + 1
    /\ rt_phase' = IF rt_n = Len(rt_in) THEN "done" ELSE "read"
    /\ UNCHANGED <<call, pend, rt_in, irqVars, fsmVars, extVars>>

NextRT == RT_Rotate \/ RT_Begin \/ RT_Write \/ RT_Read

SpecRT == Init /\ [][NextRT]_vars

(***************************************************************************)
(* The host-test variant of the queue (tests/overlap/code/Src/fsm_fifo.cpp)*)
(* run side by side with the interrupt-guarded one on the same calls.      *)
(***************************************************************************)

\* void write_event(FSM_Event event) of the host-test variant
write_event_host(q, e) ==
    LET next == q.tail + 1
    IN  IF (next = q.head) \/ ((next = FIFO_SIZE) /\ (q.head = 0))
        THEN q
        ELSE [q EXCEPT !.buffer[q.tail] = e,
                       !.tail = IF q.tail = FIFO_SIZE - 1 THEN 0 ELSE next]

\* int read_event(FSM_Event *event) of the host-test variant
read_event_host(q, ev) ==
    IF q.head = q.tail
    THEN [fifo |-> q, event |-> ev, ret |-> 0]
    ELSE [fifo  |-> [q EXCEPT !.head = IF q.head = FIFO_SIZE - 1
                                        THEN 0 ELSE q.head + 1],
          event |-> q.buffer[q.head],
          ret   |-> 1]

\* both queues empty; the two callers' FSM_Event locals are not initialised
InitPair ==
    /\ fifo = EmptyFifo
    /\ event \in Events
    /\ ret = 0
    /\ call = [fn |-> "none"]
    /\ pend = <<>>
    /\ rt_phase = "pre"
    /\ rt_in = <<>>
    /\ rt_n = 0
    /\ rt_out = <<>>
    /\ rt_rets = <<>>
    /\ pc = "call"
    /\ slot = 0
    /\ accepted = <<>>
    /\ delivered = <<>>
    /\ ndrop = 0
    /\ active = InitialState
    /\ htim = [t \in Timers |-> [running |-> FALSE, period |-> 0, cnt |-> 0]]
    /\ disp = [n |-> 0, n2 |-> 0, ev |-> TIMER_2_EVENT_INDEX]
    /\ tg = [t \in Timers |-> NoHistory]
    /\ fifo2 = EmptyFifo
    /\ event2 \in Events
    /\ ret2 = 0
    /\ irq = TRUE
    /\ wpc = "idle"
    /\ wrec = [arg |-> 0, irq0 |-> TRUE, path |-> "none", next |-> 0]

\* the same write_event call on both variants
P_Write ==
    /\ \E e \in Events :
          /\ CallWrite(e)
          /\ fifo2' = write_event_host(fifo2, e)
    /\ UNCHANGED <<event2, ret2, irq, wpc, wrec, rtVars, irqVars, fsmVars>>

\* the same read_event call on both variants
P_Read ==
    /\ CallRead
    /\ LET r == read_event_host(fifo2, event2)
       IN  /\ fifo2' = r.fifo
           /\ event2' = r.event
           /\ ret2' = r.ret
    /\ UNCHANGED <<irq, wpc, wrec, rtVars, irqVars, fsmVars>>

NextPair == P_Write \/ P_Read

SpecPair == InitPair /\ [][NextPair]_vars

(***************************************************************************)
(* The guarded write_event statement by statement, with the processor's    *)
(* interrupt-enable state: irq is TRUE while interrupts can be taken.      *)
(* wpc is the statement a call in progress is about to execute; wrec keeps *)
(* the call's argument, its local next, the interrupt-enable state it was  *)
(* entered with and the path it took.                                      *)
(***************************************************************************)

\* write_event(event) is entered
W_Call ==
    /\ wpc = "idle"
    /\ \E e \in Events :
          wrec' = [arg |-> e, irq0 |-> irq, path |-> "none", next |-> 0]
    /\ wpc' = "disable"
    /\ UNCHANGED <<fifo, event, ret, call, pend, irq, fifo2, event2, ret2,
                   rtVars, irqVars, fsmVars>>

\* variant of W_Disable: interrupts are left as they were
W_Disable_none ==
    /\ wpc = "disable"
    /\ wpc' = "test"
    /\ UNCHANGED <<fifo, event, ret, call, pend, irq, wrec, fifo2, event2, ret2,
                   rtVars, irqVars, fsmVars>>

\* line 16: __disable_irq();
W_Disable ==
    /\ wpc = "disable"
    /\ irq' = FALSE
    /\ wpc' = "test"
    /\ UNCHANGED <<fifo, event, ret, call, pend, wrec, fifo2, event2, ret2,
                   rtVars, irqVars, fsmVars>>

\* lines 17-19: int next = fifo.tail + 1; and the full test
W_Test ==
    /\ wpc = "test"
    /\ LET next == fifo.tail + 1
       IN  IF (next = fifo.head) \/ ((next = FIFO_SIZE) /\ (fifo.head = 0))
           THEN /\ wrec' = [wrec EXCEPT !.path = "full", !.next = next]
                /\ wpc' = "enable"
           ELSE /\ wrec' = [wrec EXCEPT !.path = "stored", !.next = next]
                /\ wpc' = "store"
    /\ UNCHANGED <<fifo, event, ret, call, pend, irq, fifo2, event2, ret2,
                   rtVars, irqVars, fsmVars>>

\* line 23: fifo.buffer[fifo.tail] = event;
W_Store ==
    /\ wpc = "store"
    /\ fifo' = [fifo EXCEPT !.buffer[fifo.tail] = wrec.arg]
    /\ wpc' = "tail"
    /\ UNCHANGED <<event, ret, call, pend, irq, wrec, fifo2, event2, ret2,
                   rtVars, irqVars, fsmVars>>

\* line 24: fifo.tail = (fifo.tail == (FIFO_SIZE - 1)) ? 0 : next;
W_Tail ==
    /\ wpc = "tail"
    /\ fifo' = [fifo EXCEPT !.tail = IF fifo.tail = FIFO_SIZE - 1
                                     THEN 0 ELSE wrec.next]
    /\ wpc' = "enable"
    /\ UNCHANGED <<event, ret, call, pend, irq, wrec, fifo2, event2, ret2,
                   rtVars, irqVars, fsmVars>>

\* line 26: __enable_irq(); and the return
W_Enable ==
    /\ wpc = "enable"
    /\ irq' = TRUE
    /\ wpc' = "idle"
    /\ wrec' = [wrec EXCEPT !.next = 0]
    /\ UNCHANGED <<fifo, event, ret, call, pend, fifo2, event2, ret2,
                   rtVars, irqVars, fsmVars>>

\* the caller's context disables or enables interrupts between calls
X_SetIrq ==
    /\ wpc = "idle"
    /\ irq' = ~irq
    /\ UNCHANGED <<fifo, event, ret, call, pend, wpc, wrec, fifo2, event2, ret2,
                   rtVars, irqVars, fsmVars>>

\* the consumer takes an event between two calls of write_event
X_Read ==
    /\ wpc = "idle"
    /\ LET r == read_event(fifo, event)
       IN  /\ fifo' = r.fifo
           /\ event' = r.event
           /\ ret' = r.ret
    /\ UNCHANGED <<call, pend, irq, wpc, wrec, fifo2, event2, ret2,
                   rtVars, irqVars, fsmVars>>

(***************************************************************************)
(* Interrupt context against the main loop.  The elapse callback runs in   *)
(* interrupt context and write_event keeps interrupts disabled from its    *)
(* first to its last access of fifo, so one callback is one step.  The     *)
(* main loop calls read_event again and again; an interrupt may arrive     *)
(* between any two of read_event's accesses of fifo.  fifo is accessed     *)
(* from both contexts without synchronisation on the reader's side, so     *)
(* the build may order the load of buffer[head] and the store of head      *)
(* either way: both orders are followed.                                   *)
(***************************************************************************)
Instances == {"TIM1_BASE", "TIM2_BASE", "TIM3_BASE", "TIM4_BASE"}

\* variant of the callback: TIM3 raises the event of TIMER_2
HAL_TIM_PeriodElapsedCallback_swapped(q, inst) ==
    CASE inst = "TIM1_BASE" -> write_event(q, TIMER_1_EVENT_INDEX)
      [] inst = "TIM2_BASE" -> write_event(q, TIMER_2_EVENT_INDEX)
      [] inst = "TIM3_BASE" -> write_event(q, TIMER_2_EVENT_INDEX)
      [] OTHER -> q

\* void HAL_TIM_PeriodElapsedCallback(TIM_HandleTypeDef *htim), the queue
\* after the call
HAL_TIM_PeriodElapsedCallback(q, inst) ==
    CASE inst = "TIM1_BASE" -> write_event(q, TIMER_1_EVENT_INDEX)
      [] inst = "TIM2_BASE" -> write_event(q, TIMER_2_EVENT_INDEX)
      [] inst = "TIM3_BASE" -> write_event(q, TIMER_3_EVENT_INDEX)
      [] OTHER -> q

\* the event the callback hands to write_event
EventOf(inst) ==
    CASE inst = "TIM1_BASE" -> TIMER_1_EVENT_INDEX
      [] inst = "TIM2_BASE" -> TIMER_2_EVENT_INDEX
      [] inst = "TIM3_BASE" -> TIMER_3_EVENT_INDEX

\* an elapse interrupt is taken, which needs interrupts enabled; its
\* callback runs to completion before the interrupted code goes on
X_Isr ==
    /\ irq
    /\ \E inst \in Instances : fifo' = HAL_TIM_PeriodElapsedCallback(fifo, inst)
    /\ UNCHANGED <<event, ret, call, pend, irq, wpc, wrec, fifo2, event2, ret2,
                   rtVars, irqVars, fsmVars>>

NextCrit ==
    \/ W_Call \/ W_Disable \/ W_Test \/ W_Store \/ W_Tail \/ W_Enable
    \/ X_SetIrq \/ X_Isr \/ X_Read

SpecCrit == Init /\ [][NextCrit]_vars

\* an elapse interrupt of timer instance inst
Irq(inst) ==
    /\ Len(accepted) + ndrop < MaxEvents
    /\ fifo' = HAL_TIM_PeriodElapsedCallback(fifo, inst)
    /\ IF inst = "TIM4_BASE"
       THEN UNCHANGED <<call, accepted, ndrop>>
       ELSE /\ call' = [fn |-> "write_event", arg |-> EventOf(inst)]
            /\ accepted' = IF fifo'.tail # fifo.tail
                           THEN Append(accepted, EventOf(inst)) ELSE accepted
            /\ ndrop' = IF fifo'.tail # fifo.tail THEN ndrop ELSE ndrop + 1
    /\ UNCHANGED <<event, ret, pend, pc, slot, delivered, rtVars, fsmVars, extVars>>

\* read_event line 39: if (fifo.head == fifo.tail) return 0;
R_Test ==
    /\ pc = "call"
    /\ call' = [fn |-> "read_event"]
    /\ slot' = fifo.head
    /\ IF fifo.head = fifo.tail
       THEN ret' = 0 /\ pc' = "call"
       ELSE ret' = ret /\ pc' \in {"copy", "advance_first"}
    /\ UNCHANGED <<fifo, event, pend, accepted, delivered, ndrop, rtVars, fsmVars, extVars>>

\* read_event line 43: *event = fifo.buffer[fifo.head];
R_Copy ==
    /\ pc = "copy"
    /\ event' = fifo.buffer[fifo.head]
    /\ pc' = "advance"
    /\ UNCHANGED <<fifo, ret, call, pend, slot, accepted, delivered, ndrop, rtVars, fsmVars, extVars>>

\* read_event lines 44-45: fifo.head = ...; return 1; the caller goes on at
\* position after
AdvanceStep(after) ==
    /\ pc = "advance"
    /\ fifo' = [fifo EXCEPT !.head = AdvanceHead(fifo.head)]
    /\ ret' = 1
    /\ pc' = after
    /\ UNCHANGED <<event, call, pend, slot, accepted, ndrop, rtVars, fsmVars, extVars>>

R_Advance == AdvanceStep("call") /\ delivered' = Append(delivered, event)

\* read_event line 44 carried out before line 43
R_AdvanceFirst ==
    /\ pc = "advance_first"
    /\ fifo' = [fifo EXCEPT !.head = AdvanceHead(fifo.head)]
    /\ pc' = "copy_late"
    /\ UNCHANGED <<event, ret, call, pend, slot, accepted, delivered, ndrop, rtVars, fsmVars, extVars>>

\* read_event line 43 carried out after line 44, then return 1
CopyLateStep(after) ==
    /\ pc = "copy_late"
    /\ event' = fifo.buffer[slot]
    /\ ret' = 1
    /\ pc' = after
    /\ UNCHANGED <<fifo, call, pend, slot, accepted, ndrop, rtVars, fsmVars, extVars>>

R_CopyLate == CopyLateStep("call") /\ delivered' = Append(delivered, event')

IrqAny == \E inst \in Instances : Irq(inst)

NextIrq == IrqAny \/ R_Test \/ R_Copy \/ R_Advance \/ R_AdvanceFirst \/ R_CopyLate

SpecIrq == Init /\ [][NextIrq]_vars

(***************************************************************************)
(* Timer service (user_timers.cpp).  A timer is the hardware counter the   *)
(* HAL handle points to: running (counter and update interrupt enabled),   *)
(* period (the auto-reload value) and cnt (the counter).  The handle is    *)
(* passed by value, the HAL calls act on the hardware through its Instance *)
(* pointer.  HAL_TIM_Base_Init loads the period and restarts the counter   *)
(* at 0, __HAL_TIM_CLEAR_IT clears the update flag, HAL_TIM_Base_Start_IT  *)
(* enables interrupt and counter.  A base timer reloads and keeps          *)
(* counting after it has elapsed.                                          *)
(***************************************************************************)

\* variant of start_hal_timer: HAL_TIM_Base_Start_IT is not called
start_hal_timer_noStart(h, t, ms) ==
    [h EXCEPT ![t] = [running |-> h[t].running, period |-> 10 * ms, cnt |-> 0]]

\* static void start_hal_timer(TIM_HandleTypeDef htim, int ms)
start_hal_timer(h, t, ms) ==
    [h EXCEPT ![t] = [running |-> TRUE, period |-> 10 * ms, cnt |-> 0]]

\* void start_timer(Timer timer, int ms)
start_timer(h, timer, ms) ==
    CASE timer = "TIMER_1" -> start_hal_timer(h, "TIMER_1", ms)
      [] timer = "TIMER_2" -> start_hal_timer(h, "TIMER_2", ms)
      [] timer = "TIMER_3" -> start_hal_timer(h, "TIMER_3", ms)
      [] timer = "NUM_TIMERS" -> h

\* variant of stop_hal_timer: HAL_TIM_Base_Stop_IT is not called
stop_hal_timer_noStopIT(h, t) ==
    [h EXCEPT ![t] = [running |-> h[t].running, period |-> h[t].period, cnt |-> 0]]

\* variant of stop_hal_timer: the counter is not set back to 0
stop_hal_timer_keepCounter(h, t) ==
    [h EXCEPT ![t] = [running |-> FALSE, period |-> h[t].period, cnt |-> h[t].cnt]]

\* static void stop_hal_timer(TIM_HandleTypeDef htim)
stop_hal_timer(h, t) ==
    [h EXCEPT ![t] = [running |-> FALSE, period |-> h[t].period, cnt |-> 0]]

\* void stop_timer(Timer timer)
stop_timer(h, timer) ==
    CASE timer = "TIMER_1" -> stop_hal_timer(h, "TIMER_1")
      [] timer = "TIMER_2" -> stop_hal_timer(h, "TIMER_2")
      [] timer = "TIMER_3" -> stop_hal_timer(h, "TIMER_3")
      [] timer = "NUM_TIMERS" -> h

\* the hardware instance behind htim1, htim2, htim3
InstanceOf(t) ==
    CASE t = "TIMER_1" -> "TIM1_BASE"
      [] t = "TIMER_2" -> "TIM2_BASE"
      [] t = "TIMER_3" -> "TIM3_BASE"

Min(a, b) == IF a < b THEN a ELSE b

\* history: start_timer(t, ..) has returned
Started(g, t) ==
    IF t \in Timers
    THEN [g EXCEPT ![t] = [fired |-> 0, stopped |-> FALSE,
                           late |-> g[t].late, dropped |-> g[t].dropped]]
    ELSE g

\* history: stop_timer(t) has returned
Stopped(g, t) ==
    IF t \in Timers THEN [g EXCEPT ![t].stopped = TRUE] ELSE g

\* observation: the callback was invoked for instance inst (seq tells two
\* invocations in a row apart)
CallbackOf(inst) ==
    [fn |-> "callback", inst |-> inst,
     seq |-> IF call.fn = "callback" THEN 1 - call.seq ELSE 0]

\* time passes on a running timer
Tick(t) ==
    /\ htim[t].running
    /\ htim[t].cnt < htim[t].period
    /\ htim' = [htim EXCEPT ![t].cnt = Min(htim[t].cnt + TickStep, htim[t].period)]
    /\ UNCHANGED <<fifo, event, ret, call, pend, pc, slot, accepted, delivered,
                   ndrop, active, disp, tg, rtVars, extVars>>

\* a running timer reaches its period: the counter reloads and the update
\* interrupt runs HAL_TIM_PeriodElapsedCallback
Elapse(t) ==
    /\ htim[t].running
    /\ htim[t].cnt = htim[t].period
    /\ htim' = [htim EXCEPT ![t].cnt = 0]
    /\ fifo' = HAL_TIM_PeriodElapsedCallback(fifo, InstanceOf(t))
    /\ call' = CallbackOf(InstanceOf(t))
    /\ tg' = [tg EXCEPT ![t] = [fired   |-> Min(tg[t].fired + 1, 2),
                                stopped |-> tg[t].stopped,
                                late    |-> tg[t].late \/ tg[t].stopped,
                                dropped |-> tg[t].dropped \/ fifo' = fifo]]
    /\ UNCHANGED <<event, ret, pend, pc, slot, accepted, delivered,
                   ndrop, active, disp, rtVars, extVars>>

(***************************************************************************)
(* FSM2 (FSM2.cpp), run by the tinyfsm engine: dispatch hands the event to *)
(* the reaction of the active state; transit<S>() makes S the active state *)
(* and then runs its entry action.  Both states declare a reaction to      *)
(* TIMER_2_EVENT only; the reaction FSM2 inherits for the other events     *)
(* does nothing.                                                           *)
(***************************************************************************)

\* variant of Reacts: the states react to every event
Reacts_all(st, e) == TRUE

\* void react(TIMER_2_EVENT const &) override, the only reaction declared
Reacts(st, e) == e = TIMER_2_EVENT_INDEX

\* variant of Target: FSM2_S04 transits to itself
Target_self(st) == "S04"

\* variant of Target: FSM2_S04 transits to a state that is not one of FSM2
Target_unknown(st) == IF st = "S03" THEN "S04" ELSE "S05"

\* transit<FSM2_S04>() in FSM2_S03, transit<FSM2_S03>() in FSM2_S04
Target(st) == IF st = "S03" THEN "S04" ELSE "S03"

\* the duration the entry action hands to start_timer(TIMER_2, 500)
EntryMs(st) == IF st = "S03" THEN 500 ELSE 500

\* variant of F_React: the reaction transits without stop_timer(TIMER_2)
F_React_noStop ==
    /\ pc = "dispatch"
    /\ pc' = IF Reacts(active, event) THEN "transit" ELSE "call"
    /\ UNCHANGED <<fifo, event, ret, call, pend, slot, accepted, delivered,
                   ndrop, active, htim, tg, disp, rtVars, extVars>>

\* dispatch(event): the reaction of the active state up to its transit call;
\* react() runs stop_timer(TIMER_2)
F_React ==
    /\ pc = "dispatch"
    /\ IF Reacts(active, event)
       THEN /\ htim' = stop_timer(htim, "TIMER_2")
            /\ tg' = Stopped(tg, "TIMER_2")
            /\ pc' = "transit"
       ELSE /\ htim' = htim
            /\ tg' = tg
            /\ pc' = "call"
    /\ UNCHANGED <<fifo, event, ret, call, pend, slot, accepted, delivered,
                   ndrop, active, disp, rtVars, extVars>>

\* transit<S>(): the active state becomes S
F_Transit ==
    /\ pc = "transit"
    /\ active' = Target(active)
    /\ pc' = "entry"
    /\ UNCHANGED <<fifo, event, ret, call, pend, slot, accepted, delivered,
                   ndrop, htim, disp, tg, rtVars, extVars>>

\* entry(): start_timer(TIMER_2, 500); state_S03() or state_S04()
F_Entry ==
    /\ pc = "entry"
    /\ htim' = start_timer(htim, "TIMER_2", EntryMs(active))
    /\ tg' = Started(tg, "TIMER_2")
    /\ pc' = "call"
    /\ UNCHANGED <<fifo, event, ret, call, pend, slot, accepted, delivered,
                   ndrop, active, disp, rtVars, extVars>>

\* FSM2::start(): the initial state is active and its entry action is about
\* to run
InitFsm ==
    /\ fifo = EmptyFifo
    /\ event \in Events
    /\ ret = 0
    /\ call = [fn |-> "none"]
    /\ pend = <<>>
    /\ rt_phase = "pre"
    /\ rt_in = <<>>
    /\ rt_n = 0
    /\ rt_out = <<>>
    /\ rt_rets = <<>>
    /\ pc = "entry"
    /\ slot = 0
    /\ accepted = <<>>
    /\ delivered = <<>>
    /\ ndrop = 0
    /\ active = InitialState
    /\ htim = [t \in Timers |-> [running |-> FALSE, period |-> 0, cnt |-> 0]]
    /\ disp = [n |-> 0, n2 |-> 0, ev |-> TIMER_2_EVENT_INDEX]
    /\ tg = [t \in Timers |-> NoHistory]
    /\ fifo2 = EmptyFifo
    /\ event2 = event
    /\ ret2 = 0
    /\ irq = TRUE
    /\ wpc = "idle"
    /\ wrec = [arg |-> 0, irq0 |-> TRUE, path |-> "none", next |-> 0]

(***************************************************************************)
(* Dispatch trial (spec section 8): events are handed to FSM2 directly,    *)
(* one after the other, while the timers run.                              *)
(***************************************************************************)
T_Dispatch ==
    /\ pc = "call"
    /\ disp.n < MaxDispatch
    /\ \E e \in Events :
          /\ event' = e
          /\ disp' = [n  |-> disp.n + 1,
                      n2 |-> IF e = TIMER_2_EVENT_INDEX THEN disp.n2 + 1 ELSE disp.n2,
                      ev |-> e]
    /\ pc' = "dispatch"
    /\ UNCHANGED <<fifo, ret, call, pend, slot, accepted, delivered, ndrop,
                   active, htim, tg, rtVars, extVars>>

TickAny == \E t \in Timers : Tick(t)

ElapseAny == \E t \in Timers : Elapse(t)

(***************************************************************************)
(* The timer service on its own: any caller starts and stops any channel   *)
(* (the value NUM_TIMERS included) with either duration, time passes,      *)
(* running timers elapse, and the interrupt of a timer that is not one of  *)
(* the three channels reaches the callback as well.  rt_n counts the       *)
(* calls of start_timer and stop_timer.                                    *)
(***************************************************************************)
Durations == {250, 500}

TimerArgs == Timers \cup {"NUM_TIMERS"}

\* start_timer(timer, ms) called and returned
TS_Start ==
    /\ rt_n < MaxTimerOps
    /\ \E timer \in TimerArgs, ms \in Durations :
          /\ htim' = start_timer(htim, timer, ms)
          /\ tg' = Started(tg, timer)
          /\ call' = [fn |-> "start_timer"]
    /\ rt_n' = rt_n + 1
    /\ UNCHANGED <<fifo, event, ret, pend, rt_phase, rt_in, rt_out, rt_rets,
                   irqVars, active, disp, extVars>>

\* stop_timer(timer) called and returned
TS_Stop ==
    /\ rt_n < MaxTimerOps
    /\ \E timer \in TimerArgs :
          /\ htim' = stop_timer(htim, timer)
          /\ tg' = Stopped(tg, timer)
          /\ call' = [fn |-> "stop_timer"]
    /\ rt_n' = rt_n + 1
    /\ UNCHANGED <<fifo, event, ret, pend, rt_phase, rt_in, rt_out, rt_rets,
                   irqVars, active, disp, extVars>>

\* the period-elapsed interrupt of a timer other than TIM1, TIM2, TIM3
TS_Other ==
    /\ call # CallbackOf("TIM4_BASE")
    /\ fifo' = HAL_TIM_PeriodElapsedCallback(fifo, "TIM4_BASE")
    /\ call' = CallbackOf("TIM4_BASE")
    /\ UNCHANGED <<event, ret, pend, rtVars, irqVars, fsmVars, extVars>>

NextTimer == TS_Start \/ TS_Stop \/ TS_Other \/ TickAny \/ ElapseAny

\* no caller of read_event takes part: its local event stays as it is
InitTimer == Init /\ event = TIMER_1_EVENT_INDEX

SpecTimer == InitTimer /\ [][NextTimer]_vars

NextFsm == T_Dispatch \/ F_React \/ F_Transit \/ F_Entry \/ TickAny \/ ElapseAny

SpecFsm == InitFsm /\ [][NextFsm]_vars

(***************************************************************************)
(* The whole system: the timers elapse and enqueue, the main loop polls    *)
(* the queue and dispatches what it reads to FSM2.                         *)
(***************************************************************************)
M_Advance == AdvanceStep("dispatch") /\ UNCHANGED delivered

M_CopyLate == CopyLateStep("dispatch") /\ UNCHANGED delivered

MainStep ==
    \/ R_Test \/ R_Copy \/ M_Advance \/ R_AdvanceFirst \/ M_CopyLate
    \/ F_React \/ F_Transit \/ F_Entry

NextSys == MainStep \/ TickAny \/ ElapseAny

SpecSys == InitFsm /\ [][NextSys]_vars

\* the main loop keeps running, time passes and a due timer elapses
SpecSysLive ==
    /\ SpecSys
    /\ WF_vars(MainStep)
    /\ WF_vars(TickAny)
    /\ WF_vars(ElapseAny)

(***************************************************************************)
(* Properties of the queue.                                                *)
(***************************************************************************)

\* number of live entries as head and tail encode it
Live(q) == (q.tail - q.head) % FIFO_SIZE

\* the events that successive read_event calls return until one returns 0
RECURSIVE DrainN(_, _)
DrainN(q, n) ==
    LET r == read_event(q, 0)
    IN  IF n = 0 \/ r.ret = 0 THEN <<>> ELSE <<r.event>> \o DrainN(r.fifo, n - 1)

Drain(q) == DrainN(q, FIFO_SIZE)

\* C1: from an empty queue, k < FIFO_SIZE writes of e1..ek followed by k reads
\* each return 1 and yield e1..ek in order, and the (k+1)-th read returns 0.
C1_RoundTrip ==
    rt_phase = "done" =>
        /\ rt_out = rt_in
        /\ rt_rets = [i \in 1 .. Len(rt_in) + 1 |-> IF i <= Len(rt_in) THEN 1 ELSE 0]

\* a finished trial of FIFO_SIZE - 1 events, not all equal, that wrapped
C1_Witness ==
    /\ rt_phase = "done"
    /\ Len(rt_in) = FIFO_SIZE - 1
    /\ rt_in[1] # rt_in[2]
    /\ fifo.head = FIFO_SIZE - 2

WellFormed ==
    /\ fifo.head \in Slots
    /\ fifo.tail \in Slots
    /\ Live(fifo) = Len(pend)
    /\ Len(pend) <= FIFO_SIZE - 1

\* C2: head and tail stay in 0..FIFO_SIZE-1, the live entries are the accepted
\* unread events and number at most FIFO_SIZE - 1, and read_event returns 1
\* exactly when head != tail.
C2_QueueWellFormed ==
    /\ []WellFormed
    /\ [][call'.fn = "read_event" => (ret' = 1 <=> fifo.head # fifo.tail)]_vars

\* a write made the wrapped queue full
C2_Witness ==
    /\ call.fn = "write_event"
    /\ Len(pend) = FIFO_SIZE - 1
    /\ fifo.tail < fifo.head

\* C3: on a queue holding FIFO_SIZE - 1 live entries write_event(e) changes
\* neither head, tail nor any slot, and the following reads return exactly the
\* FIFO_SIZE - 1 events stored before.
C3_OverflowDropsNewest ==
    [][(call'.fn = "write_event" /\ (fifo.tail + 1) % FIFO_SIZE = fifo.head)
         => /\ fifo' = fifo
            /\ Drain(fifo') = pend
            /\ Len(pend) = FIFO_SIZE - 1]_vars

\* a write on the full queue, of an event that is not among the stored ones
C3_Witness ==
    /\ call.fn = "write_event"
    /\ (fifo.tail + 1) % FIFO_SIZE = fifo.head
    /\ \A i \in 1 .. Len(pend) : pend[i] # call.arg

\* the same with head == 0 and tail == FIFO_SIZE - 1
C3_WitnessHeadZero == C3_Witness /\ fifo.head = 0 /\ fifo.tail = FIFO_SIZE - 1

\* C6: when head == tail, read_event returns 0 and leaves head, tail, every
\* slot and *event unchanged.
C6_EmptyReadNoOp ==
    [][(call'.fn = "read_event" /\ fifo.head = fifo.tail)
         => (ret' = 0 /\ fifo' = fifo /\ event' = event)]_vars

\* an empty read away from the initial position
C6_Witness ==
    /\ call.fn = "read_event"
    /\ ret = 0
    /\ fifo.head = fifo.tail
    /\ fifo.head # 0

IsPrefix(s, t) == Len(s) <= Len(t) /\ \A i \in 1 .. Len(s) : s[i] = t[i]

\* C4: under every interleaving of interrupt-context writes with main-loop
\* reads, the events the successful reads returned are, in order and each
\* exactly once, a prefix of the events write_event accepted.
C4_FifoDelivery == IsPrefix(delivered, accepted)

\* more events than the ring has slots were delivered, not all equal, and an
\* event was dropped on the way
C4_Witness ==
    /\ Len(delivered) > FIFO_SIZE
    /\ delivered[1] # delivered[2]
    /\ ndrop > 0

\* number of times the main loop has advanced head
Advances == Len(delivered) + (IF pc = "copy_late" THEN 1 ELSE 0)

IrqWellFormed ==
    /\ fifo.head \in Slots
    /\ fifo.tail \in Slots
    /\ Live(fifo) = Len(accepted) - Advances
    /\ Live(fifo) <= FIFO_SIZE - 1
    /\ pc \in {"copy", "advance_first", "copy_late"}
         => fifo.buffer[slot] = accepted[Len(delivered) + 1]

\* C5: with write_event preempting read_event between any two of its steps,
\* head and tail stay consistent with at most FIFO_SIZE - 1 live entries and
\* the slot the consumer is reading is not overwritten before the consumer is
\* done with it.
C5_PreemptionKeepsInvariants ==
    /\ []IrqWellFormed
    /\ [][(pc \in {"copy", "advance", "advance_first", "copy_late"})
            => (fifo'.buffer[slot] = fifo.buffer[slot])]_vars

\* a write preempted the read after its test and filled the queue up to the
\* slot being read
C5_Witness ==
    /\ pc = "copy"
    /\ call.fn = "write_event"
    /\ (fifo.tail + 1) % FIFO_SIZE = slot
    /\ slot # 0

\* the same in the other order, head already advanced and the slot not yet read
C5_WitnessLate ==
    /\ pc = "copy_late"
    /\ call.fn = "write_event"
    /\ fifo.tail = slot

(***************************************************************************)
(* Properties of FSM2.                                                     *)
(***************************************************************************)

\* TIMER_2 as start_timer(TIMER_2, 500) leaves it
Fresh500 == [running |-> TRUE, period |-> 10 * 500, cnt |-> 0]

Other(st) == IF st = "S03" THEN "S04" ELSE "S03"

\* after n dispatches of TIMER_2_EVENT the active state is S03 for even n and
\* S04 for odd n, and TIMER_2 is running with a period of 500 ms
Oscillates ==
    pc = "call" =>
        /\ active = (IF disp.n2 % 2 = 0 THEN "S03" ELSE "S04")
        /\ htim["TIMER_2"].running
        /\ htim["TIMER_2"].period = 10 * 500

\* C7: FSM2 starts in S03 with TIMER_2 started for 500 ms; a dispatch of
\* TIMER_2_EVENT in S03 makes S04 active, one in S04 makes S03 active, each
\* leaving TIMER_2 running with a freshly started 500 ms countdown, for every
\* number of dispatches.
C7_OscillatorStep ==
    /\ []Oscillates
    /\ [][(pc = "dispatch" /\ event = TIMER_2_EVENT_INDEX /\ pc' # pc)
            => pc' = "transit"]_vars
    /\ [][(pc = "transit" /\ pc' # pc)
            => (pc' = "entry" /\ active' = Other(active))]_vars
    /\ [][(pc = "entry" /\ pc' # pc)
            => (pc' = "call" /\ active' = active /\ htim'["TIMER_2"] = Fresh500)]_vars

\* three dispatches of TIMER_2_EVENT done, S04 active with its countdown
\* just started
C7_Witness ==
    /\ pc = "call"
    /\ disp.n2 = 3
    /\ active = "S04"
    /\ htim["TIMER_2"] = Fresh500

\* C8: in the whole system, with the timer elapsing while it runs and the
\* main loop draining the queue, each of S03 and S04 is the active state
\* infinitely often.
C8_KeepsAlternating == ([]<>(active = "S03")) /\ ([]<>(active = "S04"))

\* S03 is active again, every event the timer raised having been delivered
C8_Witness ==
    /\ active = "S03"
    /\ pc = "call"
    /\ fifo.head = fifo.tail
    /\ fifo.head > 1

\* C9: a dispatch of TIMER_1_EVENT or TIMER_3_EVENT, in S03 or S04, leaves the
\* active state and every timer unchanged and runs neither transit nor entry.
C9_UnrecognizedIgnored ==
    [][(pc = "dispatch" /\ event # TIMER_2_EVENT_INDEX /\ pc' # pc)
         => (pc' = "call" /\ active' = active /\ htim' = htim)]_vars

\* TIMER_3_EVENT was dispatched in S04 while TIMER_2 was part-way through its
\* countdown, which goes on
C9_Witness ==
    /\ pc = "call"
    /\ disp.ev = TIMER_3_EVENT_INDEX
    /\ active = "S04"
    /\ htim["TIMER_2"].running
    /\ htim["TIMER_2"].cnt > 0

\* C10: FSM2's active state is S03 initially and one of S03, S04 in every
\* reachable state, the states in the middle of a transition included.
C10_OneActiveState == (active = "S03") /\ [](active \in {"S03", "S04"})

\* in the middle of the transition from S04 back to S03
C10_Witness ==
    /\ pc = "entry"
    /\ active = "S03"
    /\ disp.n2 = 2

(***************************************************************************)
(* Frame of the queue operations.                                          *)
(***************************************************************************)

\* slots whose content differs between two queue values
ChangedSlots(q1, q2) == {i \in Slots : q1.buffer[i] # q2.buffer[i]}

\* C17: write_event never changes head, read_event never changes tail or a
\* slot; a write changes at most buffer[tail] and tail, and nothing on a full
\* queue; a read changes at most head, and nothing on an empty queue.
C17_SingleWriter ==
    /\ [][call'.fn = "write_event"
            => /\ fifo'.head = fifo.head
               /\ ChangedSlots(fifo, fifo') \subseteq {fifo.tail}
               /\ (fifo.tail + 1) % FIFO_SIZE = fifo.head => fifo' = fifo]_vars
    /\ [][call'.fn = "read_event"
            => /\ fifo'.tail = fifo.tail
               /\ ChangedSlots(fifo, fifo') = {}
               /\ fifo.head = fifo.tail => fifo' = fifo]_vars

\* a read moved head after a write had replaced the content of a slot
C17_Witness ==
    /\ call.fn = "read_event"
    /\ ret = 1
    /\ fifo.head = 2
    /\ fifo.buffer[0] # 0
    /\ fifo.tail = 0

\* C14: on the same sequence of calls the guarded and the host-test variant
\* return the same from every read_event (return value, and the event when
\* there is one) and have equal head, tail and buffer after every call.
C14_VariantsEquivalent ==
    /\ fifo2 = fifo
    /\ ret2 = ret
    /\ (call.fn = "read_event" /\ ret = 1) => event2 = event

\* both variants dropped an event on the full, wrapped queue and read on
C14_Witness ==
    /\ call.fn = "read_event"
    /\ ret2 = 1
    /\ Live(fifo2) = FIFO_SIZE - 2
    /\ fifo2.tail < fifo2.head
    /\ Len(pend) = FIFO_SIZE - 2

\* C20: in the guarded write_event interrupts are disabled from the
\* statement after __disable_irq() up to __enable_irq(), hence during the
\* read of head, the write of buffer[tail] and the write of tail; and
\* interrupts are enabled when the call returns, on the full path and on
\* the not-full path, whatever the interrupt-enable state at entry was.
C20_CriticalSection ==
    /\ [](wpc \in {"test", "store", "tail", "enable"} => ~irq)
    /\ [][(wpc # "idle" /\ wpc' = "idle") => irq']_vars
    /\ [][(fifo' # fifo /\ wpc # "idle" /\ wpc # "disable") => ~irq]_vars

\* a call entered with interrupts disabled has returned on the full path
C20_Witness ==
    /\ wpc = "idle"
    /\ ~wrec.irq0
    /\ wrec.path = "full"
    /\ irq

\* a call entered with interrupts disabled has returned on the not-full path
C20_WitnessStored ==
    /\ wpc = "idle"
    /\ ~wrec.irq0
    /\ wrec.path = "stored"
    /\ irq
    /\ fifo.buffer[0] = wrec.arg
    /\ wrec.arg # 0

\* the event identifier bound to channel t
EventOfTimer(t) == EventOf(InstanceOf(t))

\* this step invoked HAL_TIM_PeriodElapsedCallback
CallbackStep == call' # call /\ call'.fn = "callback"

\* this step stored event e in the queue
Stores(e) == fifo'.tail # fifo.tail /\ fifo'.buffer[fifo.tail] = e

\* C11: once stop_timer(channel) has returned, and until the next
\* start_timer(channel), the callback is not invoked for the channel's timer
\* and no event of the channel is stored in the queue, whether or not a
\* countdown was active when stop_timer was called.
C11_StopCancels ==
    /\ [](\A t \in Timers : ~tg[t].late)
    /\ [][\A t \in Timers :
            (tg[t].stopped /\ tg'[t].stopped)
                => /\ ~(CallbackStep /\ call'.inst = InstanceOf(t))
                   /\ ~Stores(EventOfTimer(t))]_vars

\* TIMER_2 was started, has elapsed and was stopped; afterwards another
\* timer's interrupt ran
C11_Witness ==
    /\ tg["TIMER_2"].stopped
    /\ tg["TIMER_2"].fired = 1
    /\ call.fn = "callback"
    /\ call.inst # "TIM2_BASE"

\* stop_timer on a channel that was never started, then time went on
C11_WitnessInactive ==
    /\ tg["TIMER_1"].stopped
    /\ htim["TIMER_1"].period = 0
    /\ call.fn = "callback"

\* C12: after start_timer(channel, ms) at most one elapse event of the
\* channel is written before the next start_timer on that channel.
C12_ElapsesOnce == \A t \in Timers : tg[t].fired <= 1

\* C13: stop_timer twice leaves what stop_timer once leaves (stopped,
\* counter zero); start_timer on a running channel leaves what a single
\* start_timer with that duration leaves (running, full duration ahead);
\* neither changes another channel and NUM_TIMERS changes no channel.
C13_Idempotent ==
    /\ [](\A timer \in TimerArgs :
            LET s1 == stop_timer(htim, timer)
            IN  /\ stop_timer(s1, timer) = s1
                /\ \A u \in Timers :
                      IF u = timer
                      THEN ~s1[u].running /\ s1[u].cnt = 0
                      ELSE s1[u] = htim[u]
                /\ \A ms \in Durations :
                      LET r1 == start_timer(htim, timer, ms)
                      IN  /\ \A ms0 \in Durations :
                                start_timer(start_timer(htim, timer, ms0), timer, ms) = r1
                          /\ \A u \in Timers :
                                IF u = timer
                                THEN r1[u] = [running |-> TRUE, period |-> 10 * ms, cnt |-> 0]
                                ELSE r1[u] = htim[u])
    /\ [][(rt_n' # rt_n) => Cardinality({t \in Timers : htim'[t] # htim[t]}) <= 1]_vars

\* a channel part-way through its countdown was started again while
\* another channel is part-way through its own
C13_Witness ==
    /\ call.fn = "start_timer"
    /\ rt_n >= 2
    /\ \E t, u \in Timers :
          /\ t # u
          /\ htim[t].running /\ htim[t].cnt > 0
          /\ htim[u].running /\ htim[u].cnt = 0

\* C16: an invocation of the callback for TIM1, TIM2 or TIM3 makes one
\* write_event call with TIMER_1_EVENT_INDEX, TIMER_2_EVENT_INDEX or
\* TIMER_3_EVENT_INDEX (one event stored at tail, or none when the queue is
\* full); for another instance nothing is enqueued; the active state and
\* the running status of every timer stay as they are.
C16_ElapseMapping ==
    [][CallbackStep =>
         /\ active' = active
         /\ \A t \in Timers : htim'[t].running = htim[t].running
         /\ fifo'.head = fifo.head
         /\ IF call'.inst \in {"TIM1_BASE", "TIM2_BASE", "TIM3_BASE"}
               /\ (fifo.tail + 1) % FIFO_SIZE # fifo.head
            THEN /\ fifo'.tail = (fifo.tail + 1) % FIFO_SIZE
                 /\ ChangedSlots(fifo, fifo') \subseteq {fifo.tail}
                 /\ fifo'.buffer[fifo.tail] =
                      (CASE call'.inst = "TIM1_BASE" -> TIMER_1_EVENT_INDEX
                         [] call'.inst = "TIM2_BASE" -> TIMER_2_EVENT_INDEX
                         [] call'.inst = "TIM3_BASE" -> TIMER_3_EVENT_INDEX)
            ELSE fifo' = fifo]_vars

\* the callback for TIM3 stored TIMER_3_EVENT_INDEX behind another event
C16_Witness ==
    /\ call.fn = "callback"
    /\ call.inst = "TIM3_BASE"
    /\ fifo.tail = 2
    /\ fifo.buffer[1] = TIMER_3_EVENT_INDEX
    /\ fifo.buffer[0] # TIMER_3_EVENT_INDEX

\* C15: in a reaction to TIMER_2_EVENT stop_timer(TIMER_2) has returned
\* before the active state changes; the active state changes before the
\* entry action of the new state runs; the entry action runs once per
\* transition and is the step that starts TIMER_2 with 500 ms, so TIMER_2 is
\* started only when it was stopped since its last start (or never started);
\* between the change of the active state and the entry action no reaction
\* runs.
C15_TransitionOrder ==
    /\ [][(active' # active)
            => /\ pc = "transit" /\ pc' = "entry"
               /\ tg["TIMER_2"].stopped
               /\ ~htim["TIMER_2"].running
               /\ htim' = htim]_vars
    /\ [][(htim'["TIMER_2"].running /\ ~htim["TIMER_2"].running)
            => /\ pc = "entry" /\ pc' = "call"
               /\ active' = active
               /\ htim'["TIMER_2"] = [running |-> TRUE, period |-> 10 * 500, cnt |-> 0]
               /\ tg["TIMER_2"].stopped \/ tg["TIMER_2"] = NoHistory
               /\ ~tg'["TIMER_2"].stopped]_vars
    /\ [][(pc' # pc)
            => /\ (pc = "transit") => (pc' = "entry" /\ active' # active)
               /\ (pc' = "entry") => (pc = "transit")
               /\ (pc = "entry") => (pc' = "call" /\ htim'["TIMER_2"].running)]_vars
    /\ [](pc \in {"transit", "entry"} => ~htim["TIMER_2"].running)
    /\ [](pc \in {"call", "dispatch"} => htim["TIMER_2"].running)

\* the entry action of S03 has run after the second transition and its
\* countdown is under way
C15_Witness ==
    /\ active = "S03"
    /\ disp.n2 >= 2
    /\ pc = "call"
    /\ ~tg["TIMER_2"].stopped
    /\ htim["TIMER_2"].cnt > 0

\* the events stored in queue q contain event e
Queued(q, e) == \E i \in 1 .. Len(Drain(q)) : Drain(q)[i] = e

\* C18: when a state of FSM2 becomes active, no TIMER_2 event raised by
\* the countdown of the previous state is still in the queue, so every
\* TIMER_2 event dispatched to the active state comes from the countdown
\* its own entry action started.
C18_NoStaleElapse ==
    [][(active' # active) => ~Queued(fifo', TIMER_2_EVENT_INDEX)]_vars

\* C19: whenever FSM2 is not executing a reaction (neither between the
\* reaction's stop_timer and its transit nor in the entry action that
\* follows), TIMER_2 is counting or a TIMER_2 event is stored in the queue;
\* also after write_event has dropped events on a full queue.
C19_NeverLeftWaiting ==
    (pc \notin {"transit", "entry"})
        => (htim["TIMER_2"].running \/ Queued(fifo, TIMER_2_EVENT_INDEX))

\* S04 waits for its countdown after write_event has dropped an elapse of
\* TIMER_2 on the full queue and the queue has been drained
C19_Witness ==
    /\ tg["TIMER_2"].dropped
    /\ active = "S04"
    /\ pc = "call"
    /\ fifo.head = fifo.tail
    /\ htim["TIMER_2"].running

====
